---- MODULE Spec2Model ----
(***************************************************************************)
(* Model of src/src/indexing_agent.py: the Qdrant indexing pipeline        *)
(* (load_nodes, client_collection, create_sparse_vector, insert_documents, *)
(* Indexing.indexing) and the three tools of QdrantIndexingAgent           *)
(* (has_embedding_model, Index.indexing, done).                            *)
(*                                                                         *)
(* The vector store and the embedding services are external: each call to  *)
(* them either returns or raises, chosen nondeterministically.  A raised   *)
(* exception is never caught by the pipeline, so it ends the run.          *)
(* Dense vectors are represented by their length and their origin; None is *)
(* the string "None".  Sequences are 1-based, the loop index i is 0-based  *)
(* as in enumerate().                                                      *)
(***************************************************************************)
EXTENDS Integers, Sequences, FiniteSets, TLC

\* ---------------------------------------------------------------- bounds
MaxN == 2       \* longest corpus file considered
MaxRuns == 2    \* calls of the Index.indexing tool per behaviour

\* ------------------------------------------------------- program constants
\* size=384 of the 'dense' VectorParams in client_collection
DenseSize == 384

\* the Embeddings registry
Embeddings ==
  [l \in {"sentence-transformer", "snowflake", "BAAI"} |->
     CASE l = "sentence-transformer" -> "sentence-transformers/all-MiniLM-L6-v2"
       [] l = "snowflake" -> "Snowflake/snowflake-arctic-embed-m"
       [] l = "BAAI" -> "BAAI/bge-large-en-v1.5"]

Registered == DOMAIN Embeddings

\* output dimensionality of the dense models the registry names
ModelDim ==
  [m \in {Embeddings[l] : l \in Registered} |->
     CASE m = "sentence-transformers/all-MiniLM-L6-v2" -> 384
       [] m = "Snowflake/snowflake-arctic-embed-m" -> 768
       [] m = "BAAI/bge-large-en-v1.5" -> 1024]

\* `import logging` is absent from the module's imports
loggingImported == FALSE

\* ------------------------------------------------------------- input sets
\* labels a caller may hand to has_embedding_model or put in the state
LabelInputs == Registered \cup {"word2vec"}

MdEmpty == [k \in {} |-> ""]
MdLang == [k \in {"lang"} |-> "en"]
MdText == [k \in {"text"} |-> "m"]

\* the node records a corpus file is made of
NodeKinds ==
  { [text |-> "a", metadata |-> MdLang],
    [text |-> "b", metadata |-> MdEmpty],
    [text |-> "c", metadata |-> MdText] }

RECURSIVE SeqsUpTo(_, _)
SeqsUpTo(S, n) ==
  IF n = 0 THEN {<<>>}
  ELSE LET shorter == SeqsUpTo(S, n - 1)
       IN shorter \cup {Append(s, x) : s \in {t \in shorter : Len(t) = n - 1}, x \in S}

Corpora == SeqsUpTo(NodeKinds, MaxN)

NoPoints == [id \in {} |-> 0]

\* the collection before the first run: absent, or created earlier (possibly
\* by another program, with another dense size)
InitialCollections ==
  { [exists |-> FALSE, dense_size |-> 0, on_disk |-> FALSE, points |-> NoPoints],
    [exists |-> TRUE, dense_size |-> 384, on_disk |-> FALSE, points |-> NoPoints],
    [exists |-> TRUE, dense_size |-> 768, on_disk |-> FALSE, points |-> NoPoints] }

\* ------------------------------------------------------------------ state
VARIABLES
  state,          \* the shared dict: embedding_model, current_speaker, just_finished
  indexEmbeddingModel, \* Index.embedding_model, read once in Indexing.__init__
  corpus,         \* the records of ..\data\nodes.json
  collection,     \* the Qdrant collection Collection_Name
  pc,             \* position of the Index.indexing call
  documents,      \* load_nodes(): documents
  metadata,       \* load_nodes(): metadata
  denseModel,     \* model_name of the TextEmbedding built by insert_documents
  i,              \* loop index of insert_documents
  denseCur,       \* dense_embedding of the current iteration
  points,         \* points list of insert_documents
  err,            \* exception that ended the run
  log,            \* external calls made by the current run, in order
  loaded,         \* load_nodes returned in this run
  provisioned,    \* client_collection returned in this run
  existsResult,   \* what collection_exists returned in this run
  written,        \* ids this run has written to the collection
  runLabel,       \* state['embedding_model'] when Index.indexing was called
  runs,           \* Index.indexing calls so far
  okRuns,         \* of these, completed
  createCalls,    \* create_collection calls so far
  createOK,       \* of these, returned
  doneResult      \* outcome of the last done() call

vars == <<state, indexEmbeddingModel, corpus, collection, pc, documents,
          metadata, denseModel, i, denseCur, points, err, log, loaded,
          provisioned, existsResult, written, runLabel, runs, okRuns,
          createCalls, createOK, doneResult>>

runLocals == <<documents, metadata, denseModel, i, denseCur, points>>

\* ------------------------------------------------------ pure definitions
\* embedding_model.embed([doc]) then .tolist(): a vector of the model's size
DenseEmbed(model, doc) == [len |-> ModelDim[model], model |-> model, of |-> doc]

\* models.SparseVector(indices=..., values=...) of create_sparse_vector
SparseVector(doc) == [indices |-> <<doc>>, values |-> <<doc>>]

\* payload={'text': doc, **metadata}: a later key replaces an earlier one
Payload(doc, md) ==
  [k \in {"text"} \cup DOMAIN md |-> IF k \in DOMAIN md THEN md[k] ELSE doc]

PointIdFromOne(idx) == idx + 1

\* id=i
PointId(idx) == idx

\* models.PointStruct(id, vector, payload)
PointStruct(idx, dense, sparse, doc, md) ==
  [id |-> PointId(idx),
   vector |-> [dense |-> dense, sparse |-> sparse],
   payload |-> Payload(doc, md)]

PointIds(pts) == {pts[k].id : k \in DOMAIN pts}

LastWithId(pts, id) ==
  pts[CHOOSE k \in DOMAIN pts :
        pts[k].id = id /\ \A j \in DOMAIN pts : pts[j].id = id => j <= k]

StoreAppend(stored, pts) ==
  LET base == Cardinality(DOMAIN stored)
  IN [id \in DOMAIN stored \cup {base + k - 1 : k \in DOMAIN pts} |->
        IF id \in DOMAIN stored THEN stored[id] ELSE pts[id - base + 1]]

\* qdrant_client.upsert: a point replaces the stored point of the same id
StoreUpsert(stored, pts) ==
  [id \in DOMAIN stored \cup PointIds(pts) |->
     IF id \in PointIds(pts) THEN LastWithId(pts, id) ELSE stored[id]]

NoDense == [len |-> 0, model |-> "None", of |-> "None"]

Resting == pc \in {"idle", "done", "failed"}

Init ==
  /\ \E m \in LabelInputs \cup {"None"} :
       /\ state = [embedding_model |-> m, current_speaker |-> "indexing",
                   just_finished |-> FALSE]
       /\ indexEmbeddingModel = m
  /\ corpus \in Corpora
  /\ collection \in InitialCollections
  /\ pc = "idle"
  /\ documents = <<>>
  /\ metadata = <<>>
  /\ denseModel = "None"
  /\ i = 0
  /\ denseCur = NoDense
  /\ points = <<>>
  /\ err = "none"
  /\ log = <<>>
  /\ loaded = FALSE
  /\ provisioned = FALSE
  /\ existsResult = "none"
  /\ written = {}
  /\ runLabel = "None"
  /\ runs = 0
  /\ okRuns = 0
  /\ createCalls = 0
  /\ createOK = 0
  /\ doneResult = "none"

Fail(e) == /\ pc' = "failed"
           /\ err' = e

\* ------------------------------------------------------------ agent tools
\* has_embedding_model(embedding_model): stores the label in the shared
\* dict (and returns whether it is not None)
HasEmbeddingModel ==
  /\ Resting
  /\ \E label \in LabelInputs :
       state' = [state EXCEPT !.embedding_model = label]
  /\ UNCHANGED <<indexEmbeddingModel, corpus, collection, pc, runLocals, err,
                 log, loaded, provisioned, existsResult, written, runLabel,
                 runs, okRuns, createCalls, createOK, doneResult>>

\* done(): its first statement is logging.info(...); the two assignments
\* follow it
Done ==
  /\ Resting
  /\ IF loggingImported
       THEN /\ state' = [state EXCEPT !.current_speaker = "None",
                                      !.just_finished = TRUE]
            /\ doneResult' = "returned"
       ELSE /\ state' = state
            /\ doneResult' = "NameError"
  /\ UNCHANGED <<indexEmbeddingModel, corpus, collection, pc, runLocals, err,
                 log, loaded, provisioned, existsResult, written, runLabel,
                 runs, okRuns, createCalls, createOK>>

\* ------------------------------------------------------ Indexing.indexing
\* the tool is called: load_nodes() reads the file, or raises
IndexingLoadNodes ==
  /\ Resting
  /\ runs < MaxRuns
  /\ runs' = runs + 1
  /\ runLabel' = state.embedding_model
  /\ log' = <<"load_nodes">>
  /\ provisioned' = FALSE
  /\ existsResult' = "none"
  /\ written' = {}
  /\ denseModel' = "None"
  /\ i' = 0
  /\ denseCur' = NoDense
  /\ points' = <<>>
  /\ \/ /\ documents' = [k \in DOMAIN corpus |-> corpus[k].text]
        /\ metadata' = [k \in DOMAIN corpus |-> corpus[k].metadata]
        /\ loaded' = TRUE
        /\ pc' = "provision"
        /\ err' = "none"
     \/ /\ documents' = <<>>
        /\ metadata' = <<>>
        /\ loaded' = FALSE
        /\ Fail("LoadError")
  /\ UNCHANGED <<state, indexEmbeddingModel, corpus, collection, okRuns,
                 createCalls, createOK, doneResult>>

ClientCollectionAlways ==
  /\ pc = "provision"
  /\ existsResult' = IF collection.exists THEN "true" ELSE "false"
  /\ log' = log \o <<"collection_exists", "create_collection">>
  /\ createCalls' = createCalls + 1
  /\ createOK' = createOK + 1
  /\ collection' = [exists |-> TRUE, dense_size |-> DenseSize,
                    on_disk |-> FALSE, points |-> NoPoints]
  /\ provisioned' = TRUE
  /\ pc' = "insert"
  /\ UNCHANGED <<state, indexEmbeddingModel, corpus, runLocals, err, loaded,
                 written, runLabel, runs, okRuns, doneResult>>

\* client_collection(): collection_exists, then create_collection if absent
ClientCollection ==
  /\ pc = "provision"
  /\ \/ /\ log' = Append(log, "collection_exists")
        /\ Fail("StoreError")
        /\ UNCHANGED <<collection, provisioned, existsResult, createCalls, createOK>>
     \/ /\ collection.exists
        /\ log' = Append(log, "collection_exists")
        /\ existsResult' = "true"
        /\ provisioned' = TRUE
        /\ pc' = "insert"
        /\ UNCHANGED <<collection, err, createCalls, createOK>>
     \/ /\ ~collection.exists
        /\ log' = log \o <<"collection_exists", "create_collection">>
        /\ existsResult' = "false"
        /\ createCalls' = createCalls + 1
        /\ \/ /\ Fail("StoreError")
              /\ UNCHANGED <<collection, provisioned, createOK>>
           \/ /\ collection' = [exists |-> TRUE, dense_size |-> DenseSize,
                                on_disk |-> FALSE, points |-> NoPoints]
              /\ createOK' = createOK + 1
              /\ provisioned' = TRUE
              /\ pc' = "insert"
              /\ err' = err
  /\ UNCHANGED <<state, indexEmbeddingModel, corpus, runLocals, loaded,
                 written, runLabel, runs, okRuns, doneResult>>

\* insert_documents, before the loop: Embeddings[embedding_model] and the
\* construction of the two embedding models
InsertDocumentsBegin ==
  /\ pc = "insert"
  /\ IF indexEmbeddingModel \notin Registered
       THEN /\ Fail("KeyError")
            /\ UNCHANGED denseModel
       ELSE \/ /\ denseModel' = Embeddings[indexEmbeddingModel]
               /\ pc' = "loop"
               /\ err' = err
            \/ /\ Fail("ModelError")
               /\ UNCHANGED denseModel
  /\ UNCHANGED <<state, indexEmbeddingModel, corpus, collection, documents,
                 metadata, i, denseCur, points, log, loaded, provisioned,
                 existsResult, written, runLabel, runs, okRuns, createCalls,
                 createOK, doneResult>>

LoopFinishedEarly == i >= 1 \/ i = Len(documents)

\* the for loop over zip(documents, metadata) is exhausted
LoopFinished == i = Len(documents)

\* loop body, first statement: the dense embedding of documents[i]
DenseEmbedStep ==
  /\ pc = "loop"
  /\ i < Len(documents)
  /\ log' = Append(log, "dense_embed")
  /\ \/ /\ denseCur' = DenseEmbed(denseModel, documents[i + 1])
        /\ pc' = "sparse"
        /\ err' = err
     \/ /\ Fail("EmbedError")
        /\ UNCHANGED denseCur
  /\ UNCHANGED <<state, indexEmbeddingModel, corpus, collection, documents,
                 metadata, denseModel, i, points, loaded, provisioned,
                 existsResult, written, runLabel, runs, okRuns, createCalls,
                 createOK, doneResult>>

CreateSparseVectorSkip ==
  /\ pc = "sparse"
  /\ log' = Append(log, "sparse_embed")
  /\ \/ /\ points' = Append(points,
                        PointStruct(i, denseCur, SparseVector(documents[i + 1]),
                                    documents[i + 1], metadata[i + 1]))
        /\ i' = i + 1
        /\ pc' = "loop"
        /\ err' = err
     \/ /\ i' = i + 1
        /\ pc' = "loop"
        /\ err' = err
        /\ UNCHANGED points
  /\ UNCHANGED <<state, indexEmbeddingModel, corpus, collection, documents,
                 metadata, denseModel, denseCur, loaded, provisioned,
                 existsResult, written, runLabel, runs, okRuns, createCalls,
                 createOK, doneResult>>

\* loop body, rest: create_sparse_vector(sparse_embedding_model, doc), the
\* PointStruct and points.append
CreateSparseVector ==
  /\ pc = "sparse"
  /\ log' = Append(log, "sparse_embed")
  /\ \/ /\ points' = Append(points,
                        PointStruct(i, denseCur, SparseVector(documents[i + 1]),
                                    documents[i + 1], metadata[i + 1]))
        /\ i' = i + 1
        /\ pc' = "loop"
        /\ err' = err
     \/ /\ Fail("EmbedError")
        /\ UNCHANGED <<points, i>>
     \/ /\ Fail("ValueError")
        /\ UNCHANGED <<points, i>>
  /\ UNCHANGED <<state, indexEmbeddingModel, corpus, collection, documents,
                 metadata, denseModel, denseCur, loaded, provisioned,
                 existsResult, written, runLabel, runs, okRuns, createCalls,
                 createOK, doneResult>>

\* after the loop: one qdrant_client.upsert with all the points
Upsert ==
  /\ pc = "loop"
  /\ LoopFinished
  /\ log' = Append(log, "upsert")
  /\ \/ /\ collection' = [collection EXCEPT
                            !.points = StoreUpsert(collection.points, points)]
        /\ written' = PointIds(points)
        /\ okRuns' = okRuns + 1
        /\ pc' = "done"
        /\ err' = err
     \/ /\ Fail("StoreError")
        /\ UNCHANGED <<collection, written, okRuns>>
  /\ UNCHANGED <<state, indexEmbeddingModel, corpus, runLocals, loaded,
                 provisioned, existsResult, runLabel, runs, createCalls,
                 createOK, doneResult>>

Next ==
  \/ HasEmbeddingModel
  \/ Done
  \/ IndexingLoadNodes
  \/ ClientCollection
  \/ InsertDocumentsBegin
  \/ DenseEmbedStep
  \/ CreateSparseVector
  \/ Upsert

Spec == Init /\ [][Next]_vars

\* ----------------------------------------------------------------- claims
Count(call) == Cardinality({k \in DOMAIN log : log[k] = call})

Stage(call) ==
  CASE call = "load_nodes" -> 1
    [] call \in {"collection_exists", "create_collection"} -> 2
    [] call \in {"dense_embed", "sparse_embed"} -> 3
    [] call = "upsert" -> 4

\* no node of the corpus has a metadata key 'text' (the Node invariant)
ValidCorpus == \A k \in DOMAIN corpus : "text" \notin DOMAIN corpus[k].metadata

\* C1: every point built by insert_documents carries a dense vector whose
\* length is the dense size client_collection declares (384), whichever
\* registered label selected the model.
DenseLenMatchesCollection ==
  \A k \in DOMAIN points : points[k].vector.dense.len = DenseSize

\* C2: with a label that is not a key of Embeddings (None included) the run
\* makes no call at all - the corpus is not loaded, the store and the
\* embedding services are not called - and ends with the KeyError.
ConfigErrorBeforeAnyCall ==
  indexEmbeddingModel \notin Registered =>
    /\ log = <<>>
    /\ ~loaded
    /\ pc \in {"idle", "failed"}

\* C3: for a node whose metadata has the key 'text', the payload's 'text'
\* is the node's document text, not the metadata value.
TextPrecedence ==
  \A k \in DOMAIN points :
    "text" \in DOMAIN metadata[k] => points[k].payload["text"] = documents[k]

\* C4: a successful run over a valid corpus of N nodes hands upsert exactly
\* N points with ids 0..N-1, the point with id i carrying the text and the
\* metadata of the i-th node of the file.
PointsMatchCorpus ==
  (pc = "done" /\ ValidCorpus) =>
    /\ Len(points) = Len(corpus)
    /\ PointIds(points) = 0 .. (Len(corpus) - 1)
    /\ \A k \in DOMAIN corpus :
         /\ points[k].id = k - 1
         /\ DOMAIN points[k].payload = {"text"} \cup DOMAIN corpus[k].metadata
         /\ points[k].payload["text"] = corpus[k].text
         /\ \A key \in DOMAIN corpus[k].metadata :
              points[k].payload[key] = corpus[k].metadata[key]

PointsMatchCorpusWitness ==
  /\ pc = "done"
  /\ ValidCorpus
  /\ Len(corpus) = 2
  /\ corpus[1] # corpus[2]
  /\ Len(points) = 2
  /\ Count("upsert") = 1

\* C5: after two completed runs over the same corpus of N nodes the
\* collection holds exactly the N points with ids 0..N-1, each the point
\* the latest run built.
TwoRunsKeepNPoints ==
  okRuns >= 2 =>
    /\ DOMAIN collection.points = 0 .. (Len(corpus) - 1)
    /\ Cardinality(DOMAIN collection.points) = Len(corpus)
    /\ pc = "done" =>
         \A k \in DOMAIN points : collection.points[points[k].id] = points[k]

TwoRunsKeepNPointsWitness ==
  /\ okRuns = 2
  /\ pc = "done"
  /\ Len(corpus) = 2
  /\ Cardinality(DOMAIN collection.points) = 2

\* C6: the ids a run has written are none or all N of them, a failed run
\* has written none, every exception ends the run, and a completed run has
\* built a point for every document (none was skipped).
NoPartialIndex ==
  /\ written = {} \/ written = 0 .. (Len(corpus) - 1)
  /\ pc = "failed" => written = {}
  /\ (err # "none") <=> (pc = "failed")
  /\ written # {} => pc = "done"
  /\ pc = "done" => /\ Len(points) = Len(corpus)
                    /\ written = 0 .. (Len(corpus) - 1)

NoPartialIndexWitness ==
  /\ pc = "failed"
  /\ err = "ValueError"
  /\ Len(points) = 1
  /\ Len(documents) = 2
  /\ written = {}
  /\ collection.points = NoPoints

\* C7: the calls of a run are ordered load, provisioning, embedding, upsert
\* with no stage re-entered; an embedding call follows the return of
\* load_nodes and of client_collection; upsert follows the dense and the
\* sparse embedding of every document.
StagesInOrder ==
  /\ \A j, k \in DOMAIN log : j < k => Stage(log[j]) <= Stage(log[k])
  /\ \A j, k \in DOMAIN log :
       (j < k /\ log[j] = log[k]) => log[j] \in {"dense_embed", "sparse_embed"}
  /\ (Count("dense_embed") > 0 \/ Count("sparse_embed") > 0) =>
       (loaded /\ provisioned)
  /\ Count("upsert") > 0 =>
       /\ Len(points) = Len(documents)
       /\ Len(documents) = Len(corpus)
       /\ Count("dense_embed") = Len(documents)
       /\ Count("sparse_embed") = Len(documents)
       /\ \A k \in DOMAIN points :
            /\ points[k].vector.dense.of = documents[k]
            /\ points[k].vector.sparse = SparseVector(documents[k])

StagesInOrderWitness ==
  /\ pc = "done"
  /\ Len(documents) = 2
  /\ log = <<"load_nodes", "collection_exists", "create_collection",
             "dense_embed", "sparse_embed", "dense_embed", "sparse_embed",
             "upsert">>

\* C8 as stated: create_collection is called exactly when collection_exists
\* returned false, and over all runs it is called at most once.
CreateCalledAtMostOnce ==
  /\ existsResult # "none" => (Count("create_collection") = 1 <=> existsResult = "false")
  /\ createCalls <= 1

\* C8 amended: create_collection is called exactly when collection_exists
\* returned false, never when the collection exists, and over all runs it
\* returns at most once (a call that raised may be repeated by a later run).
CreateOnlyWhenAbsent ==
  /\ existsResult # "none" => (Count("create_collection") = 1 <=> existsResult = "false")
  /\ existsResult = "none" => Count("create_collection") = 0
  /\ createOK <= 1
  /\ createCalls <= createOK + (runs - okRuns)

CreateOnlyWhenAbsentWitness ==
  /\ runs = 2
  /\ createOK = 1
  /\ createCalls = 1
  /\ existsResult = "true"
  /\ provisioned
  /\ Count("create_collection") = 0

\* C9: in an agent built from a state without embedding model, once
\* has_embedding_model stored a registered label, Index.indexing embeds
\* with the model registered for that label.
UsesSpecifiedModel ==
  (/\ indexEmbeddingModel = "None"
   /\ runLabel \in Registered
   /\ loaded
   /\ provisioned
   /\ pc # "insert") =>
    /\ err # "KeyError"
    /\ denseModel = Embeddings[runLabel]

\* C10: done() returns, and afterwards current_speaker is None and
\* just_finished is True.
DoneSignalsCompletion ==
  doneResult # "none" =>
    /\ doneResult = "returned"
    /\ state.current_speaker = "None"
    /\ state.just_finished = TRUE
====
